---- MODULE Spec2Model ----
(***************************************************************************)
(* Model of src/writer.rs of a2lfile: the Writer tree (StaticItem,         *)
(* TaggedGroup, Break), its builder API, the layout engine (finish,        *)
(* finish_internal, finish_group, sort_function, make_whitespace) and      *)
(* escape_string.                                                          *)
(*                                                                         *)
(* Strings are sequences of one-character strings, so that slicing,        *)
(* concatenation and lexicographic comparison are computed as the code     *)
(* computes them.  u32 is modelled with LineBits bits: U32_MAX is the      *)
(* all-ones value and + 1 on it overflows, which panics in a build with    *)
(* overflow checks (debug) and wraps to 0 in a build without (release).    *)
(***************************************************************************)
EXTENDS Integers, Sequences, FiniteSets, TLC

VARIABLES
    stack,            \* Writers under construction: <<[w, handle]>>, root first
    pc,               \* "building" | "done" ("idle": no Writer is in use)
    tree,             \* the Writer moved into finish (<<>> before), as <<w>>
    result,           \* what finish returned: [panic, text]
    overflow_checks,  \* build profile: TRUE = arithmetic overflow panics
    used,             \* nodes of the tree besides the root: Writers and items
    limits,           \* the bounds of this exploration: [nodes, children]
    value,            \* escape_string: the input
    escaped           \* escape_string: <<output>> once called, <<>> before

vars == <<stack, pc, tree, result, overflow_checks, used, limits, value, escaped>>

-----------------------------------------------------------------------------
(* Bounds of the exploration *)

LineBits == 3          \* width of the modelled u32
MaxNodes == 4
MaxChildren == 3
MaxLen == 3            \* SpecEscape: length of an escape_string input

(* Program constants *)

INDENT_WIDTH == 2
MAX_INDENT_CHARS == 120

U32_MAX == 2^LineBits - 1

-----------------------------------------------------------------------------
(* Strings *)

Str_ASAP2_VERSION == <<"A","S","A","P","2","_","V","E","R","S","I","O","N">>
Str_A2ML == <<"A","2","M","L">>
Str_begin == <<"/","b","e","g","i","n"," ">>
Str_end == <<"/","e","n","d"," ">>
Str_include == <<"/","i","n","c","l","u","d","e"," ","\"">>
Str_quote == <<"\"">>

\* byte value of the characters that are compared by String::cmp
Byte(c) ==
    CASE c = "2" -> 50 [] c = "." -> 46 [] c = "_" -> 95
      [] c = "A" -> 65 [] c = "B" -> 66 [] c = "E" -> 69 [] c = "I" -> 73
      [] c = "L" -> 76 [] c = "M" -> 77 [] c = "N" -> 78 [] c = "O" -> 79
      [] c = "P" -> 80 [] c = "R" -> 82 [] c = "S" -> 83 [] c = "V" -> 86
      [] c = "X" -> 88 [] c = "Y" -> 89
      [] c = "a" -> 97 [] c = "b" -> 98 [] c = "c" -> 99 [] c = "i" -> 105
      [] c = "n" -> 110

\* <str as Ord>::cmp: lexicographic comparison of the bytes
RECURSIVE StrCmp(_, _)
StrCmp(a, b) ==
    IF a = <<>> /\ b = <<>> THEN "Equal"
    ELSE IF a = <<>> THEN "Less"
    ELSE IF b = <<>> THEN "Greater"
    ELSE IF Byte(Head(a)) < Byte(Head(b)) THEN "Less"
    ELSE IF Byte(Head(a)) > Byte(Head(b)) THEN "Greater"
    ELSE StrCmp(Tail(a), Tail(b))

\* u32::cmp
U32Cmp(a, b) == IF a < b THEN "Less" ELSE IF a > b THEN "Greater" ELSE "Equal"

Spaces(n) == [i \in 1..n |-> " "]

\* the &'static str base_str: two newlines and 120 spaces
base_str == <<"\n", "\n">> \o Spaces(MAX_INDENT_CHARS)

\* &s[lo..hi]: the bytes lo .. hi-1 (0-based); out of range panics
SliceOk(s, lo, hi) == lo <= hi /\ hi <= Len(s)
Slice(s, lo, hi) == SubSeq(s, lo + 1, hi)

\* u32 + 1
Add1Overflows(x) == x = U32_MAX
Add1(x) == (x + 1) % (U32_MAX + 1)

-----------------------------------------------------------------------------
(* Data model *)

None == <<>>
Some(x) == <<x>>

StaticItem(line, text) == [kind |-> "StaticItem", line |-> line, text |-> text, group |-> <<>>]
Break == [kind |-> "Break", line |-> 0, text |-> <<>>, group |-> <<>>]
TaggedGroup(g) == [kind |-> "TaggedGroup", line |-> 0, text |-> <<>>, group |-> g]

\* Writer::new
WriterNew(file, line) == [file |-> file, line |-> line, items |-> <<>>]

-----------------------------------------------------------------------------
(* make_whitespace *)

\* faulty variant of must_break: the sentinel of synthesized blocks instead of u32::MAX
must_break_OnZero(current_line, item_line, break_new) ==
    break_new /\ current_line = item_line /\ current_line = 0

must_break(current_line, item_line, break_new) ==
    break_new /\ current_line = item_line /\ current_line = U32_MAX

UseSpace(current_line, item_line, break_new) ==
    current_line # 0 /\ current_line = item_line
        /\ ~must_break(current_line, item_line, break_new)

IndentChars(indent) ==
    IF indent < MAX_INDENT_CHARS \div INDENT_WIDTH
    THEN indent * INDENT_WIDTH + 2
    ELSE MAX_INDENT_CHARS + 2

\* [panic, s]: panic when current_line + 1 overflows in a checked build
make_whitespace(current_line, item_line, indent, break_new, allow_empty_line) ==
    IF UseSpace(current_line, item_line, break_new)
    THEN [panic |-> FALSE, s |-> <<" ">>]
    ELSE IF Add1Overflows(current_line) /\ overflow_checks
    THEN [panic |-> TRUE, s |-> <<>>]
    ELSE IF \/ Add1(current_line) = item_line
            \/ (current_line = 0 /\ item_line = 0)
            \/ ~allow_empty_line
    THEN [panic |-> ~SliceOk(base_str, 1, IndentChars(indent)),
          s |-> Slice(base_str, 1, IndentChars(indent))]
    ELSE [panic |-> ~SliceOk(base_str, 0, IndentChars(indent)),
          s |-> Slice(base_str, 0, IndentChars(indent))]

-----------------------------------------------------------------------------
(* sort_function and the sort of a group *)

IsSpecialTag(tag) == tag = Str_ASAP2_VERSION \/ tag = Str_A2ML

\* faulty variant of sort_function: two line numbers are compared the wrong way round
sort_function_LinesSwapped(a, b) ==
    IF IsSpecialTag(a.tag) THEN "Less"
    ELSE IF IsSpecialTag(b.tag) THEN "Greater"
    ELSE IF a.item.file # None /\ b.item.file # None
         THEN StrCmp(a.item.file[1], b.item.file[1])
    ELSE IF a.item.file # None /\ b.item.file = None THEN "Less"
    ELSE IF a.item.file = None /\ b.item.file # None THEN "Greater"
    ELSE IF a.item.line # 0 /\ b.item.line # 0
         THEN U32Cmp(b.item.line, a.item.line)
    ELSE IF a.item.line # 0 /\ b.item.line = 0 THEN "Less"
    ELSE IF a.item.line = 0 /\ b.item.line # 0 THEN "Greater"
    ELSE StrCmp(a.tag, b.tag)

sort_function(a, b) ==
    IF IsSpecialTag(a.tag) THEN "Less"
    ELSE IF IsSpecialTag(b.tag) THEN "Greater"
    ELSE IF a.item.file # None /\ b.item.file # None
         THEN StrCmp(a.item.file[1], b.item.file[1])
    ELSE IF a.item.file # None /\ b.item.file = None THEN "Less"
    ELSE IF a.item.file = None /\ b.item.file # None THEN "Greater"
    ELSE IF a.item.line # 0 /\ b.item.line # 0
         THEN U32Cmp(a.item.line, b.item.line)
    ELSE IF a.item.line # 0 /\ b.item.line = 0 THEN "Less"
    ELSE IF a.item.line = 0 /\ b.item.line # 0 THEN "Greater"
    ELSE StrCmp(a.tag, b.tag)

\* slice::sort_by on a short slice is a stable insertion sort: each element is
\* moved left past every element it compares Less than
RECURSIVE InsertTail(_, _)
InsertTail(sorted, x) ==
    IF sorted = <<>> THEN <<x>>
    ELSE IF sort_function(x, sorted[Len(sorted)]) = "Less"
    THEN Append(InsertTail(SubSeq(sorted, 1, Len(sorted) - 1), x), sorted[Len(sorted)])
    ELSE Append(sorted, x)

RECURSIVE sort_by(_)
sort_by(group) ==
    IF group = <<>> THEN <<>>
    ELSE InsertTail(sort_by(SubSeq(group, 1, Len(group) - 1)), group[Len(group)])

-----------------------------------------------------------------------------
(* finish_internal and finish_group, as the states of their loops *)

\* faulty variant of newindent: the test of empty_block is left out
newindent_NoEmptyBlock(empty_block, current_line, item_line, grouplen, indent) ==
    IF current_line = item_line /\ grouplen = 1
    THEN indent
    ELSE indent + 1

\* the indent a non-included child of a group is rendered at
newindent(empty_block, current_line, item_line, grouplen, indent) ==
    IF empty_block /\ current_line = item_line /\ grouplen = 1
    THEN indent
    ELSE indent + 1

\* faulty variant of IncludeNeeded: the set of included files is not consulted
IncludeNeeded_Always(included_files, incfile) == TRUE

\* is an /include directive written for incfile
IncludeNeeded(included_files, incfile) == incfile \notin included_files

\* faulty variant of ChildText: the tag is not written after "/end "
ChildText_NoEndTag(tag, is_block, body, end_ws) ==
    IF is_block
    THEN Str_begin \o tag \o body \o end_ws \o Str_end
    ELSE tag \o body

\* the text of one non-included child, given the text of its body and the
\* separator before "/end"
ChildText(tag, is_block, body, end_ws) ==
    IF is_block
    THEN Str_begin \o tag \o body \o end_ws \o Str_end \o tag
    ELSE tag \o body

IncludeText(ws, incfile) == ws \o Str_include \o incfile \o Str_quote

RECURSIVE finish_internal_loop(_, _, _)
RECURSIVE finish_group_loop(_, _, _, _, _)

\* the locals of finish_internal when its loop starts
finish_internal_init(self) ==
    [outstring |-> <<>>, current_line |-> self.line, empty_block |-> TRUE,
     should_break |-> FALSE, panic |-> FALSE]

\* one turn of the loop of finish_internal, on item
finish_internal_step(st, item, indent) ==
    IF st.panic THEN st
    ELSE IF item.kind = "StaticItem"
    THEN LET ws == make_whitespace(st.current_line, item.line, indent,
                                   st.should_break, FALSE)
         IN  IF ws.panic THEN [st EXCEPT !.panic = TRUE]
             ELSE [outstring |-> st.outstring \o ws.s \o item.text,
                   current_line |-> item.line, empty_block |-> FALSE,
                   should_break |-> FALSE, panic |-> FALSE]
    ELSE IF item.kind = "Break"
    THEN [st EXCEPT !.should_break = TRUE, !.empty_block = FALSE]
    ELSE LET group == sort_by(item.group)
             g == finish_group_loop(st.current_line, group, indent,
                                    st.empty_block, Len(group))
         IN  IF g.panic THEN [st EXCEPT !.panic = TRUE]
             ELSE [st EXCEPT !.outstring = st.outstring \o g.outstring,
                             !.current_line = g.current_line,
                             !.empty_block = FALSE]

\* the locals of finish_internal(self, indent) after its loop has consumed the
\* first n items
finish_internal_loop(self, indent, n) ==
    IF n = 0 THEN finish_internal_init(self)
    ELSE finish_internal_step(finish_internal_loop(self, indent, n - 1),
                              self.items[n], indent)

\* the locals of finish_group when its loop starts
finish_group_init(start_line) ==
    [outstring |-> <<>>, current_line |-> start_line, included_files |-> {},
     panic |-> FALSE]

\* one turn of the loop of finish_group, on the child (tag, item, is_block)
finish_group_step(st, tag, item, is_block, grouplen, indent, empty_block) ==
    IF st.panic THEN st
    ELSE IF item.file = None
    THEN LET ws == make_whitespace(st.current_line, item.line, indent,
                                   TRUE, is_block)
             ni == newindent(empty_block, st.current_line, item.line,
                             grouplen, indent)
             body == finish_internal_loop(item, ni, Len(item.items))
             endline == body.current_line
             end_ws == make_whitespace(endline, Add1(endline), indent,
                                       FALSE, FALSE)
         IN  IF ws.panic \/ body.panic THEN [st EXCEPT !.panic = TRUE]
             ELSE IF ~is_block
             THEN [st EXCEPT
                     !.outstring = st.outstring \o ws.s
                         \o ChildText(tag, FALSE, body.outstring, <<>>),
                     !.current_line = endline]
             ELSE IF (Add1Overflows(endline) /\ overflow_checks) \/ end_ws.panic
             THEN [st EXCEPT !.panic = TRUE]
             ELSE [st EXCEPT
                     !.outstring = st.outstring \o ws.s
                         \o ChildText(tag, TRUE, body.outstring, end_ws.s),
                     !.current_line = Add1(endline)]
    ELSE LET incfile == item.file[1]
             ws == make_whitespace(st.current_line, Add1(st.current_line),
                                   indent, TRUE, TRUE)
         IN  IF ~IncludeNeeded(st.included_files, incfile) THEN st
             ELSE IF (Add1Overflows(st.current_line) /\ overflow_checks)
                     \/ ws.panic
             THEN [st EXCEPT !.panic = TRUE]
             ELSE [st EXCEPT
                     !.outstring = st.outstring \o IncludeText(ws.s, incfile),
                     !.current_line = Add1(st.current_line),
                     !.included_files = st.included_files \cup {incfile}]

\* the locals of finish_group(start_line, group, indent, empty_block) after its
\* loop has consumed the first k children of the (sorted) group
finish_group_loop(start_line, group, indent, empty_block, k) ==
    IF k = 0 THEN finish_group_init(start_line)
    ELSE finish_group_step(
             finish_group_loop(start_line, group, indent, empty_block, k - 1),
             group[k].tag, group[k].item, group[k].is_block,
             Len(group), indent, empty_block)

\* finish_internal(self, indent) -> (u32, String)
finish_internal(self, indent) == finish_internal_loop(self, indent, Len(self.items))

\* finish_group(start_line, group, indent, empty_block) -> (u32, String)
finish_group(start_line, group, indent, empty_block) ==
    finish_group_loop(start_line, group, indent, empty_block, Len(group))

\* finish(self) -> String: text[1..] panics on the empty string
finish(self) ==
    LET r == finish_internal(self, 0)
    IN  IF r.panic \/ ~SliceOk(r.outstring, 1, Len(r.outstring))
        THEN [panic |-> TRUE, text |-> <<>>]
        ELSE [panic |-> FALSE, text |-> Slice(r.outstring, 1, Len(r.outstring))]

-----------------------------------------------------------------------------
(* escape_string *)

\* the test of the loop
IsEscaped(c) == c = "'" \/ c = "\"" \/ c = "\\" \/ c = "\n" \/ c = "\t"

\* faulty variant of Contains: the fast path does not look for a tab
Contains_NoTab(s) ==
    \E i \in 1..Len(s) :
        s[i] = "'" \/ s[i] = "\"" \/ s[i] = "\\" \/ s[i] = "\n"

\* value.contains(|c| ...): the test of the fast path
Contains(s) ==
    \E i \in 1..Len(s) :
        s[i] = "'" \/ s[i] = "\"" \/ s[i] = "\\" \/ s[i] = "\n" \/ s[i] = "\t"

\* the loop over input_chars
RECURSIVE EscapeChars(_)
EscapeChars(s) ==
    IF s = <<>> THEN <<>>
    ELSE (IF IsEscaped(Head(s)) THEN <<"\\", Head(s)>> ELSE <<Head(s)>>)
             \o EscapeChars(Tail(s))

escape_string(s) == IF Contains(s) THEN EscapeChars(s) ELSE s

-----------------------------------------------------------------------------------------------------------------------------------------------------
(* The builder API and finish, as a state machine *)

Lines == {0, 1, U32_MAX}
Files == {None, Some(<<"a",".","i","n","c">>)}
Tags == {<<"X">>}
Texts == {<<"t">>}

NoResult == [panic |-> FALSE, text |-> <<>>]

Top == stack[Len(stack)]
SetTop(frame) == [stack EXCEPT ![Len(stack)] = frame]

\* the root Writer: Writer::new(&None, line)
Init ==
    /\ \E line \in Lines : stack = <<[w |-> WriterNew(None, line), handle |-> 0]>>
    /\ pc = "building"
    /\ tree = <<>>
    /\ result = NoResult
    /\ overflow_checks \in BOOLEAN
    /\ used = 0
    /\ limits = [nodes |-> MaxNodes, children |-> MaxNodes]
    /\ value = <<>>
    /\ escaped = <<>>

\* Writer::new for a child, built while the handle of its future group is held
New(file, line) ==
    /\ pc = "building"
    /\ used < limits.nodes
    /\ Top.handle # 0
    /\ Len(Top.w.items[Top.handle].group) < limits.children
    /\ stack' = Append(stack, [w |-> WriterNew(file, line), handle |-> 0])
    /\ used' = used + 1
    /\ UNCHANGED <<pc, tree, result, overflow_checks, limits, value, escaped>>

\* self.items.push(..); using the Writer again ends the borrow of a handle
Push(item) == SetTop([w |-> [Top.w EXCEPT !.items = Append(@, item)], handle |-> 0])

add_fixed_item(item, position) ==
    /\ pc = "building"
    /\ used < limits.nodes
    /\ stack' = Push(StaticItem(position, item))
    /\ used' = used + 1
    /\ UNCHANGED <<pc, tree, result, overflow_checks, limits, value, escaped>>

add_break_if_new_item(position) ==
    /\ pc = "building"
    /\ used < limits.nodes
    /\ IF position = 0 \/ position = U32_MAX
       THEN /\ stack' = Push(Break)
            /\ used' = used + 1
       ELSE UNCHANGED <<stack, used>>
    /\ UNCHANGED <<pc, tree, result, overflow_checks, limits, value, escaped>>

\* pushes an empty TaggedGroup and returns the handle to it
add_tagged_group ==
    /\ pc = "building"
    /\ used < limits.nodes
    /\ stack' = SetTop([w |-> [Top.w EXCEPT !.items = Append(@, TaggedGroup(<<>>))],
                        handle |-> Len(Top.w.items) + 1])
    /\ used' = used + 1
    /\ UNCHANGED <<pc, tree, result, overflow_checks, limits, value, escaped>>

\* TaggedGroupHandle::add_tagged_item: the finished child Writer on top of the
\* stack is moved into the group the handle of its owner points to
add_tagged_item(tag, is_block) ==
    /\ pc = "building"
    /\ Len(stack) >= 2
    /\ LET owner == stack[Len(stack) - 1]
           idx == owner.handle
       IN  /\ idx # 0
           /\ owner.w.items[idx].kind = "TaggedGroup"
           /\ stack' = [SubSeq(stack, 1, Len(stack) - 1) EXCEPT ![Len(stack) - 1] =
                  [owner EXCEPT !.w.items[idx].group =
                      Append(@, [tag |-> tag, item |-> Top.w, is_block |-> is_block])]]
    /\ UNCHANGED <<pc, tree, result, overflow_checks, used, limits, value, escaped>>

\* Writer::finish on the root
Finish ==
    /\ pc = "building"
    /\ Len(stack) = 1
    /\ tree' = <<Top.w>>
    /\ result' = finish(Top.w)
    /\ stack' = <<>>
    /\ pc' = "done"
    /\ UNCHANGED <<overflow_checks, used, limits, value, escaped>>

Next ==
    \/ \E file \in Files, line \in Lines : New(file, line)
    \/ \E item \in Texts, position \in Lines : add_fixed_item(item, position)
    \/ \E position \in Lines : add_break_if_new_item(position)
    \/ add_tagged_group
    \/ \E tag \in Tags, is_block \in BOOLEAN : add_tagged_item(tag, is_block)
    \/ Finish

Spec == Init /\ [][Next]_vars

-----------------------------------------------------------------------------------------------------------------------------------------------------
(* The same machine on one level of children: more files and tags, more    *)
(* children in a group, no StaticItem and no Break.  SpecOrder draws the    *)
(* tags from A2ML and X, SpecTags from ASAP2_VERSION, A2ML and X.           *)

OrderFiles == Files \cup {Some(<<"b",".","i","n","c">>)}
OrderTags == {Str_A2ML, <<"X">>}
AllTags == OrderTags \cup {Str_ASAP2_VERSION}

InitOrder ==
    /\ stack = <<[w |-> WriterNew(None, 0), handle |-> 0]>>
    /\ pc = "building"
    /\ tree = <<>>
    /\ result = NoResult
    /\ overflow_checks \in BOOLEAN
    /\ used = 0
    /\ limits = [nodes |-> MaxChildren + 1, children |-> MaxChildren]
    /\ value = <<>>
    /\ escaped = <<>>

NextOrder ==
    \/ \E file \in OrderFiles, line \in Lines : New(file, line)
    \/ add_tagged_group
    \/ \E tag \in OrderTags : add_tagged_item(tag, FALSE)
    \/ Finish

SpecOrder == InitOrder /\ [][NextOrder]_vars

NextTags ==
    \/ \E file \in OrderFiles, line \in Lines : New(file, line)
    \/ add_tagged_group
    \/ \E tag \in AllTags : add_tagged_item(tag, FALSE)
    \/ Finish

SpecTags == InitOrder /\ [][NextTags]_vars

-----------------------------------------------------------------------------
(* escape_string as a state machine: an input is drawn, then escaped *)

EscapeAlphabet == {"'", "\"", "\\", "\n", "\t", "a"}

RECURSIVE Strings(_)
Strings(n) ==
    IF n = 0 THEN {<<>>}
    ELSE LET shorter == Strings(n - 1)
         IN  shorter \cup {Append(s, c) : s \in shorter, c \in EscapeAlphabet}

InitEscape ==
    /\ stack = <<>>
    /\ pc = "idle"
    /\ tree = <<>>
    /\ result = NoResult
    /\ overflow_checks = FALSE
    /\ used = 0
    /\ limits = [nodes |-> 0, children |-> 0]
    /\ value \in Strings(MaxLen)
    /\ escaped = <<>>

Escape ==
    /\ escaped = <<>>
    /\ escaped' = <<escape_string(value)>>
    /\ UNCHANGED <<stack, pc, tree, result, overflow_checks, used, limits, value>>

NextEscape == Escape

SpecEscape == InitEscape /\ [][NextEscape]_vars

-----------------------------------------------------------------------------
(* What the claims speak of *)

IsPrefixAt(p, s, i) == i + Len(p) - 1 <= Len(s) /\ SubSeq(s, i, i + Len(p) - 1) = p
IsSubstring(p, s) == \E i \in 1..(Len(s) + 1) : IsPrefixAt(p, s, i)
IsSuffix(p, s) == Len(p) <= Len(s) /\ SubSeq(s, Len(s) - Len(p) + 1, Len(s)) = p
Drop(s, n) == SubSeq(s, n + 1, Len(s))
IsWhitespace(c) == c = " " \/ c = "\n"

\* a newline and the indentation of `indent` levels
LineBreak(indent) == <<"\n">> \o Spaces(indent * INDENT_WIDTH)

RECURSIVE SkipWhitespace(_)
SkipWhitespace(s) ==
    IF s # <<>> /\ IsWhitespace(Head(s)) THEN SkipWhitespace(Tail(s)) ELSE s

\* the paths of the /include "path" directives of a text, in order
RECURSIVE UpToQuote(_)
UpToQuote(s) ==
    IF s = <<>> \/ Head(s) = "\"" THEN <<>> ELSE <<Head(s)>> \o UpToQuote(Tail(s))

RECURSIVE IncludesOf(_)
IncludesOf(s) ==
    IF s = <<>> THEN <<>>
    ELSE IF IsPrefixAt(Str_include, s, 1)
    THEN LET path == UpToQuote(Drop(s, Len(Str_include)))
         IN  <<path>> \o IncludesOf(Drop(s, Len(Str_include) + Len(path) + 1))
    ELSE IncludesOf(Tail(s))

Done == pc = "done"
Root == tree[1]

\* every (tag, child, is_block) of every group below w
RECURSIVE AllChildren(_)
AllChildren(w) ==
    UNION { UNION { {w.items[n].group[k]} \cup AllChildren(w.items[n].group[k].item)
                    : k \in 1..Len(w.items[n].group) }
            : n \in 1..Len(w.items) }

\* every group below w, as appended
AllGroups(w) ==
    { w.items[n].group : n \in { m \in 1..Len(w.items) : w.items[m].kind = "TaggedGroup" } }
        \cup UNION { { e.item.items[n].group
                       : n \in { m \in 1..Len(e.item.items) :
                                     e.item.items[m].kind = "TaggedGroup" } }
                     : e \in AllChildren(w) }

\* those that are not included and lie below no included child
RECURSIVE InlineChildren(_)
InlineChildren(w) ==
    UNION { UNION { IF w.items[n].group[k].item.file = None
                    THEN {w.items[n].group[k]} \cup InlineChildren(w.items[n].group[k].item)
                    ELSE {}
                    : k \in 1..Len(w.items[n].group) }
            : n \in 1..Len(w.items) }

\* The calls finish makes, each with the states its loop goes through.
\* A call of finish_internal is [self, indent, st], st[n] the locals after n
\* items; a call of finish_group is [start_line, group (as appended), indent,
\* empty_block, sorted, st], st[k] the locals after k children of sorted.
RECURSIVE InternalTrace(_, _, _)
InternalTrace(self, indent, n) ==
    IF n = 0 THEN <<finish_internal_init(self)>>
    ELSE LET t == InternalTrace(self, indent, n - 1)
         IN  Append(t, finish_internal_step(t[n], self.items[n], indent))

RECURSIVE GroupTrace(_, _, _, _, _)
GroupTrace(start_line, sorted, indent, empty_block, k) ==
    IF k = 0 THEN <<finish_group_init(start_line)>>
    ELSE LET t == GroupTrace(start_line, sorted, indent, empty_block, k - 1)
         IN  Append(t, finish_group_step(t[k], sorted[k].tag, sorted[k].item,
                                         sorted[k].is_block, Len(sorted), indent,
                                         empty_block))

InternalCall(self, indent) ==
    LET t == InternalTrace(self, indent, Len(self.items))
    IN  [self |-> self, indent |-> indent,
         st |-> [n \in 0..Len(self.items) |-> t[n + 1]]]

GroupCall(start_line, group, indent, empty_block) ==
    LET sorted == sort_by(group)
        t == GroupTrace(start_line, sorted, indent, empty_block, Len(group))
    IN  [start_line |-> start_line, group |-> group, indent |-> indent,
         empty_block |-> empty_block, sorted |-> sorted,
         st |-> [k \in 0..Len(group) |-> t[k + 1]]]

\* the calls of finish_group made by a call of finish_internal
GroupCallsOf(c) ==
    { GroupCall(c.st[n - 1].current_line, c.self.items[n].group, c.indent,
                c.st[n - 1].empty_block)
      : n \in { m \in 1..Len(c.self.items) :
                    c.self.items[m].kind = "TaggedGroup" /\ ~c.st[m - 1].panic } }

\* what the k-th child of the sorted group added to the text of the group
GroupDelta(call, k) == Drop(call.st[k].outstring, Len(call.st[k - 1].outstring))
\* the indent the k-th child is rendered at
ChildIndent(call, k) ==
    newindent(call.empty_block, call.st[k - 1].current_line, call.sorted[k].item.line,
              Len(call.group), call.indent)
\* is the k-th child handed to finish_internal
ChildRendered(call, k) ==
    /\ ~call.st[k - 1].panic
    /\ call.sorted[k].item.file = None
    /\ ~make_whitespace(call.st[k - 1].current_line, call.sorted[k].item.line,
                        call.indent, TRUE, call.sorted[k].is_block).panic

RECURSIVE InternalCallsBelow(_)
InternalCallsBelow(c) ==
    {c} \cup
    UNION { UNION { InternalCallsBelow(InternalCall(call.sorted[k].item, ChildIndent(call, k)))
                    : k \in { j \in 1..Len(call.group) : ChildRendered(call, j) } }
            : call \in GroupCallsOf(c) }

\* every call of finish_internal and of finish_group that finish(Root) makes
InternalCalls == InternalCallsBelow(InternalCall(Root, 0))
GroupCalls == UNION { GroupCallsOf(c) : c \in InternalCalls }

\* what the n-th item added to the text of a Writer
InternalDelta(c, n) == Drop(c.st[n].outstring, Len(c.st[n - 1].outstring))

-----------------------------------------------------------------------------
(* The claims *)

\* C1: finish completes and returns a string for every tree the builder API
\* can build: no slice out of range, no overflow of the line cursor.
C1_FinishNeverFails == Done => ~result.panic

\* C2: for every non-empty tree, the string finish returns does not begin
\* with a space or a newline.
C2_NoLeadingWhitespace ==
    (Done /\ ~result.panic /\ Root.items # <<>>)
        => (result.text # <<>> /\ ~IsWhitespace(result.text[1]))

\* the text of a block child: "/begin " tag, the body of the child at some
\* indent, a line break, "/end " tag
HasBlockText(e, text) ==
    \E ind \in 0..MaxNodes, k \in 0..MaxNodes :
        /\ ~finish_internal(e.item, ind).panic
        /\ IsSubstring(Str_begin \o e.tag \o finish_internal(e.item, ind).outstring
                           \o LineBreak(k) \o Str_end \o e.tag,
                       result.text)

\* C3 as stated: every child appended with is_block = TRUE, whatever its
\* originFile, is rendered in the output of finish as "/begin " tag, its body,
\* a line break and "/end " tag.
C3_EveryBlockChildHasBeginEnd ==
    (Done /\ ~result.panic)
        => \A e \in AllChildren(Root) : e.is_block => HasBlockText(e, result.text)

\* C3 as amended: every block child that is not included (originFile = None)
\* and lies below no included child is rendered in the output of finish as
\* "/begin " tag, its body, a line break and "/end " tag, the same tag twice.
C3_InlineBlockChildHasBeginEnd ==
    (Done /\ ~result.panic)
        => \A e \in InlineChildren(Root) : e.is_block => HasBlockText(e, result.text)

\* a block child with a body of its own was rendered
C3_Witness ==
    /\ Done /\ ~result.panic
    /\ \E e \in InlineChildren(Root) :
           e.is_block /\ e.item.items # <<>> /\ finish_internal(e.item, 1).outstring # <<>>

\* the k-th child of the sorted group of a call was rendered with its body at
\* indent ind: what it added to the text of the group ends with its tag (and
\* markers) around finish_internal(child, ind)
BodyAt(call, k, ind) ==
    LET e == call.sorted[k]
    IN  IsSuffix(ChildText(e.tag, e.is_block, finish_internal(e.item, ind).outstring,
                           LineBreak(call.indent)),
                 GroupDelta(call, k))

\* the children of a call whose text is in the output
RenderedChildren(call) ==
    { k \in 1..Len(call.group) : ChildRendered(call, k) /\ ~call.st[k].panic }

\* C7 as stated: a group with exactly one child, whose line equals the line
\* cursor where the group is rendered, renders the body of that child at the
\* indent of the group; a group with two or more children renders the body of
\* each child that is not included at indent + 1.
C7_SingleChildSameLineKeepsIndent ==
    Done => \A call \in GroupCalls : \A k \in RenderedChildren(call) :
                IF Len(call.group) = 1 /\ call.sorted[k].item.line = call.start_line
                THEN BodyAt(call, k, call.indent)
                ELSE Len(call.group) >= 2 => BodyAt(call, k, call.indent + 1)

\* C7 as amended: the body of the only child of a group is rendered at the
\* indent of the group when the line of the child equals the line cursor and
\* the group is the first item of its Writer (no StaticItem, Break or group
\* comes before it); in every other case, and always in a group with two or
\* more children, the body of a child that is not included is rendered at
\* indent + 1.
C7_FirstItemSingleChildSameLineKeepsIndent ==
    Done => \A call \in GroupCalls : \A k \in RenderedChildren(call) :
                IF /\ Len(call.group) = 1
                   /\ call.sorted[k].item.line = call.start_line
                   /\ call.empty_block
                THEN BodyAt(call, k, call.indent)
                ELSE BodyAt(call, k, call.indent + 1)

\* a first-item group with one child on the line of the cursor, whose body
\* shows the indent it was rendered at
C7_Witness ==
    /\ Done /\ ~result.panic
    /\ \E call \in GroupCalls : \E k \in RenderedChildren(call) :
           /\ Len(call.group) = 1 /\ call.empty_block
           /\ call.sorted[k].item.line = call.start_line
           /\ finish_internal(call.sorted[k].item, call.indent).outstring
                  # finish_internal(call.sorted[k].item, call.indent + 1).outstring

\* the separator and the text a StaticItem added
IsLineBreakThenText(c, n) ==
    InternalDelta(c, n) = LineBreak(c.indent) \o c.self.items[n].text
IsSpaceThenText(c, n) ==
    InternalDelta(c, n) = <<" ">> \o c.self.items[n].text

\* the StaticItems that directly follow a Break and were emitted
AfterBreak(c) ==
    { n \in 2..Len(c.self.items) :
          /\ c.self.items[n - 1].kind = "Break"
          /\ c.self.items[n].kind = "StaticItem"
          /\ ~c.st[n].panic }

\* C10 as stated: the separator before a StaticItem that directly follows a
\* Break is a line break (newline and indentation), never a single space,
\* whatever the line cursor and the line of the item; the pending-break flag
\* is cleared once the item is emitted.
C10_BreakForcesLineBreak ==
    Done => \A c \in InternalCalls : \A n \in AfterBreak(c) :
                /\ IsLineBreakThenText(c, n)
                /\ ~c.st[n].should_break

\* C10 as amended: the separator before a StaticItem that directly follows a
\* Break is a line break whenever the line of the item differs from the line
\* cursor or is 0 or u32::MAX; when the line of the item equals the cursor and
\* is neither 0 nor u32::MAX it is a single space.  The pending-break flag is
\* cleared once the item is emitted, in both cases.
C10_BreakForcesLineBreakOnSentinels ==
    Done => \A c \in InternalCalls : \A n \in AfterBreak(c) :
                /\ IF /\ c.self.items[n].line = c.st[n - 1].current_line
                      /\ c.self.items[n].line \notin {0, U32_MAX}
                   THEN IsSpaceThenText(c, n)
                   ELSE IsLineBreakThenText(c, n)
                /\ ~c.st[n].should_break

\* a StaticItem on the u32::MAX line follows a Break while the cursor is on
\* the u32::MAX line, and is emitted after a line break
C10_Witness ==
    /\ Done /\ ~result.panic
    /\ \E c \in InternalCalls : \E n \in AfterBreak(c) :
           /\ c.self.items[n].line = U32_MAX
           /\ c.st[n - 1].current_line = U32_MAX
           /\ c.st[n - 1].should_break
           /\ IsLineBreakThenText(c, n)

\* the included children of the sorted group of a call that the loop reached
IncludedChildren(call) ==
    { k \in 1..Len(call.group) :
          call.sorted[k].item.file # None /\ ~call.st[k].panic }
PathOf(call, k) == call.sorted[k].item.file[1]
IsFirstOfPath(call, k) ==
    \A j \in 1..(k - 1) : call.sorted[j].item.file # call.sorted[k].item.file

\* one directive for the first child of each path, nothing for a later one
OneDirectivePerPath(call) ==
    \A k \in IncludedChildren(call) :
        IF IsFirstOfPath(call, k)
        THEN SkipWhitespace(GroupDelta(call, k))
                 = Str_include \o PathOf(call, k) \o Str_quote
        ELSE /\ GroupDelta(call, k) = <<>>
             /\ call.st[k].current_line = call.st[k - 1].current_line

\* the directives of the group are in ascending order of path
DirectivesAscending(call) ==
    \A j, k \in IncludedChildren(call) :
        (j < k /\ GroupDelta(call, j) # <<>> /\ GroupDelta(call, k) # <<>>)
            => StrCmp(PathOf(call, j), PathOf(call, k)) = "Less"

\* C4 as stated: every group renders exactly one /include directive for each
\* distinct originFile path among its children, a later child with a path
\* already emitted adds no output and leaves the line cursor unchanged, and
\* the directives are in ascending alphabetical order of path.
C4_OneIncludePerPathAscending ==
    Done => \A call \in GroupCalls :
                OneDirectivePerPath(call) /\ DirectivesAscending(call)

\* C4 as amended: every group renders exactly one /include directive for each
\* distinct originFile path among its children, and a later child with a path
\* already emitted adds no output and leaves the line cursor unchanged; the
\* directives are in ascending alphabetical order of path in every group none
\* of whose included children is tagged ASAP2_VERSION or A2ML.
C4_OneIncludePerPathAscendingAmongPlainTags ==
    Done => \A call \in GroupCalls :
                /\ OneDirectivePerPath(call)
                /\ (\A k \in 1..Len(call.group) :
                        call.group[k].item.file # None => ~IsSpecialTag(call.group[k].tag))
                       => DirectivesAscending(call)

\* children from b.inc, a.inc, b.inc appended in that order were rendered as
\* two directives
C4_Witness ==
    /\ Done /\ ~result.panic
    /\ \E call \in GroupCalls :
           /\ Len(call.group) >= 3
           /\ \A k \in 1..Len(call.group) : ~IsSpecialTag(call.group[k].tag)
           /\ call.group[1].item.file = Some(<<"b",".","i","n","c">>)
           /\ call.group[2].item.file = Some(<<"a",".","i","n","c">>)
           /\ call.group[3].item.file = Some(<<"b",".","i","n","c">>)
           /\ IncludesOf(call.st[Len(call.group)].outstring)
                  = << <<"a",".","i","n","c">>, <<"b",".","i","n","c">> >>

\* the first thing a group emits, after the separator, is the rendering of a
\* child tagged ASAP2_VERSION: the tag, or the directive of its originFile
VersionFirst(call) ==
    LET text == SkipWhitespace(call.st[Len(call.group)].outstring)
    IN  \/ IsPrefixAt(Str_ASAP2_VERSION, text, 1)
        \/ IsPrefixAt(Str_begin \o Str_ASAP2_VERSION, text, 1)
        \/ \E k \in 1..Len(call.group) :
               /\ call.group[k].tag = Str_ASAP2_VERSION
               /\ call.group[k].item.file # None
               /\ IsPrefixAt(Str_include \o call.group[k].item.file[1] \o Str_quote, text, 1)

\* C5: in every group that holds a child tagged ASAP2_VERSION and children
\* with other tags, whatever the append order, lines and originFiles, the
\* rendering of the ASAP2_VERSION child is the first thing the group emits.
C5_VersionRendersFirst ==
    Done => \A call \in GroupCalls :
                (/\ ~call.st[Len(call.group)].panic
                 /\ \E k \in 1..Len(call.group) : call.group[k].tag = Str_ASAP2_VERSION
                 /\ \E k \in 1..Len(call.group) : call.group[k].tag # Str_ASAP2_VERSION)
                    => VersionFirst(call)

\* children i < j of a sorted group, both with a line number, are in line order
InLineOrder(sorted, i, j) ==
    (sorted[i].item.line # 0 /\ sorted[j].item.line # 0)
        => sorted[i].item.line <= sorted[j].item.line

\* C6 as stated: after the sort of a group, the children with a non-zero line
\* are in non-decreasing order of line, for every group and append order.
C6_SortedByLine ==
    Done => \A g \in AllGroups(Root) :
                \A i, j \in 1..Len(g) : i < j => InLineOrder(sort_by(g), i, j)

IsPlain(e) == e.item.file = None /\ ~IsSpecialTag(e.tag)

\* C6 as amended: after the sort of a group, the children with a non-zero
\* line that are not included and not tagged ASAP2_VERSION or A2ML are in
\* non-decreasing order of line, for every group and append order.
C6_PlainChildrenSortedByLine ==
    Done => \A g \in AllGroups(Root) :
                LET sorted == sort_by(g)
                IN  \A i, j \in 1..Len(g) :
                        (i < j /\ IsPlain(sorted[i]) /\ IsPlain(sorted[j]))
                            => InLineOrder(sorted, i, j)

\* two plain children were appended in descending order of line
C6_Witness ==
    /\ Done
    /\ \E g \in AllGroups(Root) : \E i, j \in 1..Len(g) :
           /\ i < j /\ IsPlain(g[i]) /\ IsPlain(g[j])
           /\ g[j].item.line # 0
           /\ g[i].item.line > g[j].item.line

Reverse(o) == IF o = "Less" THEN "Greater" ELSE IF o = "Greater" THEN "Less" ELSE "Equal"

\* C9: sort_function is a total order on the children of a group:
\* compare(a, b) is the reverse of compare(b, a), compare(a, a) is Equal, and
\* compare(a, b) # Greater and compare(b, c) # Greater give
\* compare(a, c) # Greater.
C9_SortFunctionIsTotalOrder ==
    Done => \A g \in AllGroups(Root) :
                LET S == { g[k] : k \in 1..Len(g) }
                IN  /\ \A a, b \in S : sort_function(a, b) = Reverse(sort_function(b, a))
                    /\ \A a, b, c \in S :
                           (sort_function(a, b) # "Greater" /\ sort_function(b, c) # "Greater")
                               => sort_function(a, c) # "Greater"

SpecialChars == {"'", "\"", "\\", "\n", "\t"}
CountSpecial(s, i) == Cardinality({ j \in 1..i : s[j] \in SpecialChars })

\* C8: escape_string(x) is x with one backslash inserted right before each
\* single quote, double quote, backslash, newline and tab, every other
\* character unchanged and in order: character i of x is character
\* i + (specials among the first i) of the output, a backslash precedes it
\* exactly when it is special, the length grows by the number of specials,
\* and the output is x itself when x holds none.
C8_EscapeInsertsBackslashes ==
    escaped # <<>> =>
        LET out == escaped[1]
        IN  /\ Len(out) = Len(value) + CountSpecial(value, Len(value))
            /\ \A i \in 1..Len(value) :
                   /\ out[i + CountSpecial(value, i)] = value[i]
                   /\ value[i] \in SpecialChars
                          => out[i + CountSpecial(value, i) - 1] = "\\"
            /\ CountSpecial(value, Len(value)) = 0 => out = value

\* a string with a special and a plain character was escaped
C8_Witness ==
    /\ escaped # <<>>
    /\ Len(value) = MaxLen
    /\ \E i, j \in 1..Len(value) : value[i] = "\t" /\ value[j] = "a"

====
